---- MODULE Spec2Model ----
(***************************************************************************)
(* Model of util/grub-pbkdf2.c: the option loop, the allocation of the     *)
(* four work buffers, the echo-free double password prompt, the salt read  *)
(* from the random device, the PBKDF2 call, the hex encoding and the       *)
(* wipe-and-free sequences of main(), together with hexify().              *)
(*                                                                         *)
(* Memory is modelled cell by cell: a buffer is a sequence of bytes, a     *)
(* cell malloc() returned and nobody wrote holds Indet.  Strings are the   *)
(* bytes before the first zero cell, as strlen/strcmp/printf("%s") see     *)
(* them.                                                                   *)
(***************************************************************************)
EXTENDS Integers, Sequences, FiniteSets, TLC

\* ---------------------------------------------------------------- bounds
\* Most options getopt_long hands out before it returns -1.
MaxArgs == 1
\* Most bytes of a password line before its newline.
MaxLine == 2
\* Longest byte sequence handed to hexify on its own.
MaxHexLen == 2

\* ------------------------------------------------------ program constants
DefaultC == 10000
DefaultBuflen == 64
DefaultSaltlen == 64
\* '\n', '0' and 'A'.
NL == 10
Ch0 == 48
ChA == 65
\* A cell of allocated storage nothing was written to (not a byte value).
Indet == 256

BufNames == {"bufhex", "buf", "salt", "salthex", "pass1", "pass2"}

\* Bytes a password line is made of: NUL and 'a'.
PassBytes == {0, 97}
\* Byte patterns the random device and the derivation deliver, repeated
\* over the length asked for.
SaltPatterns == {<<171, 9>>, <<0, 255>>}
KeyPatterns == {<<16, 250>>, <<0, 0>>}
\* Bytes hexify is tried on alone: both nibbles below, at and above 10.
HexBytes == {0, 9, 10, 15, 16, 159, 160, 171, 255}

VARIABLES
  pc,          \* position in main()
  c,           \* main's c (line 113)
  getopt_c,    \* the loop's own c (line 128)
  buflen, saltlen,
  optind,      \* options consumed so far
  given,       \* what the command line gave with -c, -l, -s
  heap,        \* the six buffers: state and cells
  in_stream, out_stream,
  term,        \* the terminal's c_lflag bits
  term_pre,    \* the terminal's c_lflag bits before the run
  s,           \* saved attributes
  tty_changed,
  restores,    \* tcsetattr (.., &s) calls made
  f,           \* the random device handle
  rd,
  freads,      \* fread calls made on the random device
  gcry_err,
  kdf_calls,   \* arguments of each grub_crypto_pbkdf2 call
  entry1,      \* the first entry as typed, newline stripped
  entries_differ, \* whether the second entry, as typed, differs from it
  reads,       \* stream of each getline
  stdout_s, stderr_s, tty_s,
  exit_status, \* "running", "0", "1", or "signal" (abnormal termination)
  ub,          \* undefined operations executed
  wide         \* the lengths at their full width, with what malloc was
               \* asked for and what was written to the two hex buffers

vars == <<pc, c, getopt_c, buflen, saltlen, optind, given, heap, in_stream,
          out_stream, term, term_pre, s, tty_changed, restores, f, rd,
          freads, gcry_err, kdf_calls, entry1, entries_differ, reads, stdout_s, stderr_s,
          tty_s, exit_status, ub, wide>>

\* ------------------------------------------------------------ C library
\* A buffer: st is "none" (never allocated), "live" or "freed"; dirty says
\* that it was released while a cell still held a written non-zero byte.
\* The cells of released storage are no longer the program's and are
\* dropped.
NoBuf == [st |-> "none", cells |-> <<>>, frees |-> 0, dirty |-> FALSE]

Malloc(n) ==
  [st |-> "live", cells |-> [i \in 1..n |-> Indet], frees |-> 0, dirty |-> FALSE]

HoldsMaterial(cells) == \E i \in 1..Len(cells) : cells[i] # 0 /\ cells[i] # Indet

Free(b) ==
  [st |-> "freed", cells |-> <<>>, frees |-> b.frees + 1,
   dirty |-> b.dirty \/ HoldsMaterial(b.cells)]

\* Number of cells before the first zero cell.
RECURSIVE StrlenFrom(_, _)
StrlenFrom(cells, i) ==
  IF i > Len(cells) \/ cells[i] = 0 THEN i - 1 ELSE StrlenFrom(cells, i + 1)

Strlen(cells) == StrlenFrom(cells, 1)

CStr(cells) == SubSeq(cells, 1, Strlen(cells))

\* strcmp (a, b) != 0
StrcmpDiffers(a, b) == CStr(a) # CStr(b)

\* memset (p, 0, n)
Memset0(cells, n) == [i \in 1..Len(cells) |-> IF i <= n THEN 0 ELSE cells[i]]

\* memset (p, 0, strlen (p))
WipeStr(b) == [b EXCEPT !.cells = Memset0(@, Strlen(@))]

\* memset (p, 0, n) on a buffer
WipeN(b, n) == [b EXCEPT !.cells = Memset0(@, n)]

\* strtoul (optarg, NULL, 0) on a string of decimal digits
RECURSIVE Strtoul(_)
Strtoul(str) ==
  IF str = <<>> THEN 0
  ELSE Strtoul(SubSeq(str, 1, Len(str) - 1)) * 10 + (str[Len(str)] - Ch0)

\* Option arguments tried: "0" and "12".
OptArgs == {<<48>>, <<49, 50>>}

\* n bytes of a repeated pattern
Fill(pat, n) == [i \in 1..n |-> pat[((i - 1) % Len(pat)) + 1]]

\* Lines getline can deliver: bytes other than newline, then the newline
\* unless the input ended first; never nothing at all.
RawLines == UNION {[1..n -> PassBytes] : n \in 0..MaxLine}

\* ---------------------------------------------------------------- hexify
\* HexDigit with lower-case letters for 10-15 (a variant the claims must
\* tell apart from the code).
HexDigitLower(nib) == IF nib < 10 THEN nib + Ch0 ELSE nib + 97 - 10

HexDigit(nib) == IF nib < 10 THEN nib + Ch0 ELSE nib + ChA - 10

RECURSIVE HexChars(_)
HexChars(bin) ==
  IF bin = <<>> THEN <<>>
  ELSE <<HexDigit(Head(bin) \div 16), HexDigit(Head(bin) % 16)>>
         \o HexChars(Tail(bin))

\* hexify (hex, bin, n): the cells of hex after the call
Hexify(hexcells, bin, n) ==
  LET out == HexChars(SubSeq(bin, 1, n)) \o <<0>>
  IN [i \in 1..Len(hexcells) |-> IF i <= Len(out) THEN out[i] ELSE hexcells[i]]

\* ------------------------------------------------------------ output
\* One write to a stream: the format, and for the credential its arguments.
Text(str) == [text |-> str, iter |-> 0, salthex |-> <<>>, bufhex |-> <<>>]

\* printf ("Your PBKDF2 is grub.pbkdf2.sha512.%d.%s.%s\n", c, salthex, bufhex)
Credential(iter, salthexcells, bufhexcells) ==
  [text |-> "Your PBKDF2 is grub.pbkdf2.sha512.%d.%s.%s\n", iter |-> iter,
   salthex |-> CStr(salthexcells), bufhex |-> CStr(bufhexcells)]

IsCredential(w) == w.text = "Your PBKDF2 is grub.pbkdf2.sha512.%d.%s.%s\n"

\* grub_util_error (msg): one line on the error stream, then exit (1).
GrubUtilError(msg) ==
  /\ stderr_s' = Append(stderr_s, Text(msg))
  /\ exit_status' = "1"
  /\ pc' = "exit"

\* The process is ended by a signal: nothing more is written.
Crash ==
  /\ stderr_s' = stderr_s
  /\ exit_status' = "signal"
  /\ pc' = "exit"

\* exit (0) / return 0
ExitZero ==
  /\ stderr_s' = stderr_s
  /\ exit_status' = "0"
  /\ pc' = "exit"

\* ----------------------------------------------------------- terminal
\* NoEcho clearing ISIG alone: the echo flag is left as it was.
NoEchoIsigOnly(lflag) == lflag \ {"ISIG"}

\* t.c_lflag &= ~(ECHO|ISIG)
NoEcho(lflag) == lflag \ {"ECHO", "ISIG"}

\* RestoreTty with the tcsetattr call left out (a variant the claims must
\* tell apart from the code).
RestoreTtySkipped(changed, saved, cur) == cur

\* if (tty_changed) (void) tcsetattr (fileno (in), TCSAFLUSH, &s)
RestoreTty(changed, saved, cur) == IF changed THEN saved ELSE cur

\* RestoreCount without the test of tty_changed: tcsetattr is called on
\* every path.
RestoreCountAlways(changed, n) == n + 1

\* The calls of the restoring tcsetattr made so far.
RestoreCount(changed, n) == IF changed THEN n + 1 ELSE n

\* ---------------------------------------------------------------- Init
\* Everything but the position, buflen and the buffers, at the entry of main.
Boot ==
  /\ c = DefaultC
  /\ getopt_c = 0
  /\ saltlen = DefaultSaltlen
  /\ optind = 0
  /\ given = [c |-> <<>>, l |-> <<>>, s |-> <<>>]
  /\ in_stream = "unset"
  /\ out_stream = "unset"
  /\ term \in {{"ECHO", "ISIG"}, {"ISIG"}}
  /\ term_pre = term
  /\ s = {}
  /\ tty_changed = FALSE
  /\ restores = 0
  /\ f = "unopened"
  /\ rd = 0
  /\ freads = 0
  /\ gcry_err = 0
  /\ kdf_calls = <<>>
  /\ entry1 = <<>>
  /\ entries_differ = FALSE
  /\ reads = <<>>
  /\ stdout_s = <<>>
  /\ stderr_s = <<>>
  /\ tty_s = <<>>
  /\ exit_status = "running"
  /\ ub = <<>>

\* The full-width lengths are followed in SpecWide alone.
NoWide == <<>>

Init ==
  /\ pc = "getopt"
  /\ buflen = DefaultBuflen
  /\ heap = [b \in BufNames |-> NoBuf]
  /\ wide = NoWide
  /\ Boot

\* ------------------------------------------------------- option loop
\* case 'c': c = strtoul (optarg, NULL, 0) -- the c of line 128.
OptC ==
  /\ pc = "getopt" /\ optind < MaxArgs
  /\ \E a \in OptArgs :
       /\ getopt_c' = Strtoul(a)
       /\ given' = [given EXCEPT !.c = a]
  /\ optind' = optind + 1
  /\ UNCHANGED <<wide, pc, c, buflen, saltlen, heap, in_stream, out_stream, term,
                 term_pre, s, tty_changed, restores, f, rd, freads,
                 gcry_err, kdf_calls, entry1, entries_differ, reads, stdout_s, stderr_s,
                 tty_s, exit_status, ub>>

\* case 'l': buflen = strtoul (optarg, NULL, 0)
OptL ==
  /\ pc = "getopt" /\ optind < MaxArgs
  /\ \E a \in OptArgs :
       /\ buflen' = Strtoul(a)
       /\ given' = [given EXCEPT !.l = a]
  /\ getopt_c' = 108
  /\ optind' = optind + 1
  /\ UNCHANGED <<wide, pc, c, saltlen, heap, in_stream, out_stream, term,
                 term_pre, s, tty_changed, restores, f, rd, freads,
                 gcry_err, kdf_calls, entry1, entries_differ, reads, stdout_s, stderr_s,
                 tty_s, exit_status, ub>>

\* case 's': saltlen = strtoul (optarg, NULL, 0)
OptS ==
  /\ pc = "getopt" /\ optind < MaxArgs
  /\ \E a \in OptArgs :
       /\ saltlen' = Strtoul(a)
       /\ given' = [given EXCEPT !.s = a]
  /\ getopt_c' = 115
  /\ optind' = optind + 1
  /\ UNCHANGED <<wide, pc, c, buflen, heap, in_stream, out_stream, term,
                 term_pre, s, tty_changed, restores, f, rd, freads,
                 gcry_err, kdf_calls, entry1, entries_differ, reads, stdout_s, stderr_s,
                 tty_s, exit_status, ub>>

\* case 'h': usage (0)
OptHelp ==
  /\ pc = "getopt" /\ optind < MaxArgs
  /\ getopt_c' = 104
  /\ optind' = optind + 1
  /\ stdout_s' = Append(stdout_s, Text("Usage: grub-scrypt [OPTIONS]\n..."))
  /\ ExitZero
  /\ UNCHANGED <<wide, c, buflen, saltlen, given, heap, in_stream, out_stream,
                 term, term_pre, s, tty_changed, restores, f, rd, freads,
                 gcry_err, kdf_calls, entry1, entries_differ, reads, tty_s, ub>>

\* case 'V': printf ("%s (%s) %s\n", ...); return 0
OptVersion ==
  /\ pc = "getopt" /\ optind < MaxArgs
  /\ getopt_c' = 86
  /\ optind' = optind + 1
  /\ stdout_s' = Append(stdout_s, Text("%s (%s) %s\n"))
  /\ ExitZero
  /\ UNCHANGED <<wide, c, buflen, saltlen, given, heap, in_stream, out_stream,
                 term, term_pre, s, tty_changed, restores, f, rd, freads,
                 gcry_err, kdf_calls, entry1, entries_differ, reads, tty_s, ub>>

\* default: usage (1)
OptBad ==
  /\ pc = "getopt" /\ optind < MaxArgs
  /\ getopt_c' = 63
  /\ optind' = optind + 1
  /\ stderr_s' = Append(stderr_s,
                   Text("Try ``grub-scrypt --help'' for more information.\n"))
  /\ exit_status' = "1"
  /\ pc' = "exit"
  /\ UNCHANGED <<wide, c, buflen, saltlen, given, heap, in_stream, out_stream,
                 term, term_pre, s, tty_changed, restores, f, rd, freads,
                 gcry_err, kdf_calls, entry1, entries_differ, reads, stdout_s, tty_s, ub>>

\* if (c == -1) break
GetoptEnd ==
  /\ pc = "getopt"
  /\ getopt_c' = -1
  /\ pc' = "malloc_bufhex"
  /\ UNCHANGED <<wide, c, buflen, saltlen, optind, given, heap, in_stream,
                 out_stream, term, term_pre, s, tty_changed, restores, f,
                 rd, freads, gcry_err, kdf_calls, entry1, entries_differ, reads, stdout_s,
                 stderr_s, tty_s, exit_status, ub>>

\* ------------------------------------------------------- allocation
\* bufhex = malloc (buflen * 2 + 1)
MallocBufhex ==
  /\ pc = "malloc_bufhex"
  /\ \/ /\ heap' = [heap EXCEPT !["bufhex"] = Malloc(buflen * 2 + 1)]
        /\ pc' = "malloc_buf"
        /\ UNCHANGED <<stderr_s, exit_status>>
     \/ /\ GrubUtilError("Out of memory")
        /\ UNCHANGED heap
  /\ UNCHANGED <<wide, c, getopt_c, buflen, saltlen, optind, given, in_stream,
                 out_stream, term, term_pre, s, tty_changed, restores, f,
                 rd, freads, gcry_err, kdf_calls, entry1, entries_differ, reads, stdout_s,
                 tty_s, ub>>

\* buf = malloc (buflen)
MallocBuf ==
  /\ pc = "malloc_buf"
  /\ \/ /\ heap' = [heap EXCEPT !["buf"] = Malloc(buflen)]
        /\ pc' = "malloc_salt"
        /\ UNCHANGED <<stderr_s, exit_status>>
     \/ /\ heap' = [heap EXCEPT !["bufhex"] = Free(@)]
        /\ GrubUtilError("Out of memory")
  /\ UNCHANGED <<wide, c, getopt_c, buflen, saltlen, optind, given, in_stream,
                 out_stream, term, term_pre, s, tty_changed, restores, f,
                 rd, freads, gcry_err, kdf_calls, entry1, entries_differ, reads, stdout_s,
                 tty_s, ub>>

\* salt = malloc (saltlen)
MallocSalt ==
  /\ pc = "malloc_salt"
  /\ \/ /\ heap' = [heap EXCEPT !["salt"] = Malloc(saltlen)]
        /\ pc' = "malloc_salthex"
        /\ UNCHANGED <<stderr_s, exit_status>>
     \/ /\ heap' = [heap EXCEPT !["bufhex"] = Free(@), !["buf"] = Free(@)]
        /\ GrubUtilError("Out of memory")
  /\ UNCHANGED <<wide, c, getopt_c, buflen, saltlen, optind, given, in_stream,
                 out_stream, term, term_pre, s, tty_changed, restores, f,
                 rd, freads, gcry_err, kdf_calls, entry1, entries_differ, reads, stdout_s,
                 tty_s, ub>>

\* salthex = malloc (saltlen * 2 + 1)
MallocSalthex ==
  /\ pc = "malloc_salthex"
  /\ \/ /\ heap' = [heap EXCEPT !["salthex"] = Malloc(saltlen * 2 + 1)]
        /\ pc' = "open_tty"
        /\ UNCHANGED <<stderr_s, exit_status>>
     \/ /\ heap' = [heap EXCEPT !["salt"] = Free(@), !["bufhex"] = Free(@),
                                !["buf"] = Free(@)]
        /\ GrubUtilError("Out of memory")
  /\ UNCHANGED <<wide, c, getopt_c, buflen, saltlen, optind, given, in_stream,
                 out_stream, term, term_pre, s, tty_changed, restores, f,
                 rd, freads, gcry_err, kdf_calls, entry1, entries_differ, reads, stdout_s,
                 tty_s, ub>>

\* ---------------------------------------------------------- terminal
\* in = fopen ("/dev/tty", "w+c"); the fallback is stdin and stderr.
OpenTty ==
  /\ pc = "open_tty"
  /\ \/ in_stream' = "tty" /\ out_stream' = "tty"
     \/ in_stream' = "stdin" /\ out_stream' = "stderr"
  /\ pc' = "tcgetattr"
  /\ UNCHANGED <<wide, c, getopt_c, buflen, saltlen, optind, given, heap, term,
                 term_pre, s, tty_changed, restores, f, rd, freads,
                 gcry_err, kdf_calls, entry1, entries_differ, reads, stdout_s, stderr_s,
                 tty_s, exit_status, ub>>

\* tcgetattr, s = t, clear ECHO and ISIG, tcsetattr; tty_changed records
\* whether the last call succeeded.
DisableEcho ==
  /\ pc = "tcgetattr"
  /\ \/ /\ s' = term
        /\ \/ term' = NoEcho(term) /\ tty_changed' = TRUE
           \/ term' = term /\ tty_changed' = FALSE
     \/ /\ tty_changed' = FALSE
        /\ UNCHANGED <<s, term>>
  /\ pc' = "read_pass1"
  /\ UNCHANGED <<wide, c, getopt_c, buflen, saltlen, optind, given, heap,
                 in_stream, out_stream, term_pre, restores, f, rd,
                 freads, gcry_err, kdf_calls, entry1, entries_differ, reads, stdout_s,
                 stderr_s, tty_s, exit_status, ub>>

\* ------------------------------------------------------------ prompts
\* The buffer getline hands back for a line: its bytes and the terminator.
LineBuf(raw, nl) ==
  [st |-> "live", frees |-> 0, dirty |-> FALSE,
   cells |-> raw \o (IF nl THEN <<NL>> ELSE <<>>) \o <<0>>]

\* nr, the count getline returns for a line: its bytes and its newline.
\* (A failed getline returns -1 and takes the other branch.)
GetlineNr(raw, nl) == Len(raw) + (IF nl THEN 1 ELSE 0)

\* if (nr >= 1 && p[nr-1] == '\n') p[nr-1] = 0
StripNewline(b, n) ==
  IF n >= 1 /\ b.cells[n] = NL THEN [b EXCEPT !.cells[n] = 0] ELSE b

\* What getline leaves in *lineptr when it fails: nothing, or a buffer it
\* allocated and did not fill.
FailedLineBufs == {NoBuf, Malloc(1)}

\* printf ("Enter password: "); getline (&pass1, &n, stdin); lines 209-227
ReadPass1 ==
  /\ pc = "read_pass1"
  /\ stdout_s' = Append(stdout_s, Text("Enter password: "))
  /\ reads' = Append(reads, "stdin")
  /\ \/ \E raw \in RawLines, nl \in BOOLEAN :
          /\ GetlineNr(raw, nl) >= 1
          /\ heap' = [heap EXCEPT !["pass1"] =
                         StripNewline(LineBuf(raw, nl), GetlineNr(raw, nl))]
          /\ entry1' = raw
          /\ pc' = "read_pass2"
          /\ UNCHANGED <<term, restores, stderr_s, exit_status>>
     \/ \E got \in FailedLineBufs :
          /\ heap' = [heap EXCEPT !["pass1"] = got, !["buf"] = Free(@),
                                  !["bufhex"] = Free(@), !["salthex"] = Free(@),
                                  !["salt"] = Free(@)]
          /\ term' = RestoreTty(tty_changed, s, term)
          /\ restores' = RestoreCount(tty_changed, restores)
          /\ GrubUtilError("Failure to read password")
          /\ UNCHANGED entry1
  /\ UNCHANGED <<wide, c, getopt_c, buflen, saltlen, optind, given, in_stream,
                 out_stream, term_pre, s, tty_changed, f, rd, freads,
                 gcry_err, kdf_calls, entries_differ, tty_s, ub>>

\* printf ("\nReenter password: "); getline (&pass2, &n, stdin); restore;
\* printf ("\n"); lines 229-251
ReadPass2 ==
  /\ pc = "read_pass2"
  /\ stdout_s' = stdout_s \o <<Text("\nReenter password: "), Text("\n")>>
  /\ reads' = Append(reads, "stdin")
  /\ term' = RestoreTty(tty_changed, s, term)
  /\ restores' = RestoreCount(tty_changed, restores)
  /\ \/ \E raw \in RawLines, nl \in BOOLEAN :
          /\ GetlineNr(raw, nl) >= 1
          /\ heap' = [heap EXCEPT !["pass2"] =
                         StripNewline(LineBuf(raw, nl), GetlineNr(raw, nl))]
          /\ entries_differ' = (raw # entry1)
          /\ pc' = "compare"
          /\ UNCHANGED <<stderr_s, exit_status>>
     \/ \E got \in FailedLineBufs :
          /\ heap' = [heap EXCEPT !["pass2"] = got,
                                  !["pass1"] = Free(WipeStr(@)),
                                  !["buf"] = Free(@), !["bufhex"] = Free(@),
                                  !["salthex"] = Free(@), !["salt"] = Free(@)]
          /\ GrubUtilError("Failure to read password")
          /\ UNCHANGED entries_differ
  /\ UNCHANGED <<wide, c, getopt_c, buflen, saltlen, optind, given, in_stream,
                 out_stream, term_pre, s, tty_changed, f, rd, freads,
                 gcry_err, kdf_calls, entry1, tty_s, ub>>

\* strcmp (pass1, pass2); lines 253-266
Compare ==
  /\ pc = "compare"
  /\ \/ /\ StrcmpDiffers(heap["pass1"].cells, heap["pass2"].cells)
        /\ heap' = [heap EXCEPT !["pass1"] = Free(WipeStr(@)),
                                !["pass2"] = Free(WipeStr(@)),
                                !["buf"] = Free(@), !["bufhex"] = Free(@),
                                !["salthex"] = Free(@), !["salt"] = Free(@)]
        /\ GrubUtilError("Passwords don't match")
     \/ /\ ~StrcmpDiffers(heap["pass1"].cells, heap["pass2"].cells)
        /\ heap' = [heap EXCEPT !["pass2"] = Free(WipeStr(@))]
        /\ pc' = "open_random"
        /\ UNCHANGED <<stderr_s, exit_status>>
  /\ UNCHANGED <<wide, c, getopt_c, buflen, saltlen, optind, given, in_stream,
                 out_stream, term, term_pre, s, tty_changed, restores, f,
                 rd, freads, gcry_err, kdf_calls, entry1, entries_differ, reads, stdout_s,
                 tty_s, ub>>

\* --------------------------------------------------------------- salt
\* fread (p, 1, n, f) delivering k bytes of a pattern into a buffer
Fread(b, pat, k) ==
  [b EXCEPT !.cells = [i \in 1..Len(@) |-> IF i <= k THEN Fill(pat, k)[i] ELSE @[i]]]

\* Byte counts a short read can return.
ShortCounts(n) == {0, 1, n - 1} \cap (0..(n - 1))

\* f = fopen ("/dev/random", "rb"); lines 275-286.  The failure branch ends
\* with fclose (f) on the null handle, which is undefined: the call
\* returns, or the process is ended by a signal.
OpenRandom ==
  /\ pc = "open_random"
  /\ \/ /\ f' = "open"
        /\ pc' = "read_salt"
        /\ UNCHANGED <<heap, ub, stderr_s, exit_status>>
     \/ /\ f' = "null"
        /\ heap' = [heap EXCEPT !["pass1"] = Free(WipeStr(@)),
                                !["buf"] = Free(@), !["bufhex"] = Free(@),
                                !["salthex"] = Free(@), !["salt"] = Free(@)]
        /\ ub' = Append(ub, "fclose (NULL)")
        /\ \/ GrubUtilError("Couldn't retrieve random data for salt")
           \/ Crash
  /\ UNCHANGED <<wide, c, getopt_c, buflen, saltlen, optind, given, in_stream,
                 out_stream, term, term_pre, s, tty_changed, restores,
                 rd, freads, gcry_err, kdf_calls, entry1, entries_differ, reads, stdout_s,
                 tty_s>>

\* rd = fread (salt, 1, saltlen, f); lines 287-300.  The short-read branch
\* closes f twice; the second fclose is undefined: it returns, or the
\* process is ended by a signal.
ReadSalt ==
  /\ pc = "read_salt"
  /\ freads' = freads + 1
  /\ f' = "closed"
  /\ \E pat \in SaltPatterns :
       \/ /\ rd' = saltlen
          /\ heap' = [heap EXCEPT !["salt"] = Fread(@, pat, saltlen)]
          /\ pc' = "derive"
          /\ UNCHANGED <<ub, stderr_s, exit_status>>
       \/ \E k \in ShortCounts(saltlen) :
            /\ rd' = k
            /\ heap' = [heap EXCEPT !["salt"] = Free(Fread(@, pat, k)),
                                    !["pass1"] = Free(WipeStr(@)),
                                    !["buf"] = Free(@), !["bufhex"] = Free(@),
                                    !["salthex"] = Free(@)]
            /\ ub' = Append(ub, "fclose (closed)")
            /\ \/ GrubUtilError("Couldn't retrieve random data for salt")
               \/ Crash
  /\ UNCHANGED <<wide, c, getopt_c, buflen, saltlen, optind, given, in_stream,
                 out_stream, term, term_pre, s, tty_changed, restores,
                 gcry_err, kdf_calls, entry1, entries_differ, reads, stdout_s, tty_s>>

\* --------------------------------------------------------- derivation
\* gcry_err = grub_crypto_pbkdf2 (GRUB_MD_SHA512, pass1, strlen (pass1),
\* salt, saltlen, c, buf, buflen); memset; free (pass1); lines 303-308.
\* The primitive is a black box: it fails, with buf written or not, or it
\* fills buf with buflen bytes.
Derive ==
  /\ pc = "derive"
  /\ kdf_calls' = Append(kdf_calls,
                    [pass |-> CStr(heap["pass1"].cells),
                     salt |-> SubSeq(heap["salt"].cells, 1, saltlen),
                     saltlen |-> saltlen, c |-> c, buflen |-> buflen])
  /\ \E pat \in KeyPatterns :
       \/ /\ gcry_err' = 0
          /\ heap' = [heap EXCEPT !["buf"] = Fread(@, pat, buflen),
                                  !["pass1"] = Free(WipeStr(@))]
       \/ /\ gcry_err' = 1
          /\ \/ heap' = [heap EXCEPT !["buf"] = Fread(@, pat, buflen),
                                     !["pass1"] = Free(WipeStr(@))]
             \/ heap' = [heap EXCEPT !["pass1"] = Free(WipeStr(@))]
  /\ pc' = "check_err"
  /\ UNCHANGED <<wide, c, getopt_c, buflen, saltlen, optind, given, in_stream,
                 out_stream, term, term_pre, s, tty_changed, restores, f,
                 rd, freads, entry1, entries_differ, reads, stdout_s, stderr_s, tty_s,
                 exit_status, ub>>

\* if (gcry_err) { ... }; lines 310-321
GcryError ==
  /\ pc = "check_err" /\ gcry_err # 0
  /\ heap' = [heap EXCEPT !["buf"] = Free(WipeN(@, buflen)),
                          !["bufhex"] = Free(WipeN(@, 2 * buflen)),
                          !["salt"] = Free(WipeN(@, saltlen)),
                          !["salthex"] = Free(WipeN(@, 2 * saltlen))]
  /\ GrubUtilError("Cryptographic error number %d")
  /\ UNCHANGED <<wide, c, getopt_c, buflen, saltlen, optind, given, in_stream,
                 out_stream, term, term_pre, s, tty_changed, restores, f,
                 rd, freads, gcry_err, kdf_calls, entry1, entries_differ, reads, stdout_s,
                 tty_s, ub>>

\* Encode without the test of gcry_err: the credential is printed whatever
\* the derivation returned.
EncodeUnchecked ==
  /\ pc = "check_err"
  /\ LET bh == Hexify(heap["bufhex"].cells, heap["buf"].cells, buflen)
         sh == Hexify(heap["salthex"].cells, heap["salt"].cells, saltlen)
     IN /\ heap' = [heap EXCEPT !["bufhex"].cells = bh, !["salthex"].cells = sh]
        /\ stdout_s' = Append(stdout_s, Credential(c, sh, bh))
  /\ pc' = "cleanup"
  /\ UNCHANGED <<wide, c, getopt_c, buflen, saltlen, optind, given, in_stream,
                 out_stream, term, term_pre, s, tty_changed, restores, f,
                 rd, freads, gcry_err, kdf_calls, entry1, entries_differ, reads, stderr_s,
                 tty_s, exit_status, ub>>

\* hexify (bufhex, buf, buflen); hexify (salthex, salt, saltlen); printf;
\* lines 323-326
Encode ==
  /\ pc = "check_err" /\ gcry_err = 0
  /\ LET bh == Hexify(heap["bufhex"].cells, heap["buf"].cells, buflen)
         sh == Hexify(heap["salthex"].cells, heap["salt"].cells, saltlen)
     IN /\ heap' = [heap EXCEPT !["bufhex"].cells = bh, !["salthex"].cells = sh]
        /\ stdout_s' = Append(stdout_s, Credential(c, sh, bh))
  /\ pc' = "cleanup"
  /\ UNCHANGED <<wide, c, getopt_c, buflen, saltlen, optind, given, in_stream,
                 out_stream, term, term_pre, s, tty_changed, restores, f,
                 rd, freads, gcry_err, kdf_calls, entry1, entries_differ, reads, stderr_s,
                 tty_s, exit_status, ub>>

\* the final wipes and frees; return 0; lines 327-336
Cleanup ==
  /\ pc = "cleanup"
  /\ heap' = [heap EXCEPT !["buf"] = Free(WipeN(@, buflen)),
                          !["bufhex"] = Free(WipeN(@, 2 * buflen)),
                          !["salt"] = Free(WipeN(@, saltlen)),
                          !["salthex"] = Free(WipeN(@, 2 * saltlen))]
  /\ ExitZero
  /\ UNCHANGED <<wide, c, getopt_c, buflen, saltlen, optind, given, in_stream,
                 out_stream, term, term_pre, s, tty_changed, restores, f,
                 rd, freads, gcry_err, kdf_calls, entry1, entries_differ, reads, stdout_s,
                 tty_s, ub>>

Next ==
  \/ OptC \/ OptL \/ OptS \/ OptHelp \/ OptVersion \/ OptBad \/ GetoptEnd
  \/ MallocBufhex \/ MallocBuf \/ MallocSalt \/ MallocSalthex
  \/ OpenTty \/ DisableEcho \/ ReadPass1 \/ ReadPass2 \/ Compare
  \/ OpenRandom \/ ReadSalt \/ Derive \/ GcryError \/ Encode \/ Cleanup

Spec == Init /\ [][Next]_vars

\* ------------------------------------------------------ hexify alone
\* hexify on a byte sequence of its own: buf holds n bytes, bufhex has the
\* 2n+1 cells main allocates for it.
HexInputs == UNION {[1..n -> HexBytes] : n \in 0..MaxHexLen}

InitHex ==
  /\ pc = "hexify"
  /\ \E bin \in HexInputs :
       /\ buflen = Len(bin)
       /\ heap = [b \in BufNames |->
                    IF b = "buf" THEN [Malloc(Len(bin)) EXCEPT !.cells = bin]
                    ELSE IF b = "bufhex" THEN Malloc(Len(bin) * 2 + 1)
                    ELSE NoBuf]
  /\ wide = NoWide
  /\ Boot

\* hexify (bufhex, buf, buflen)
HexifyAlone ==
  /\ pc = "hexify"
  /\ heap' = [heap EXCEPT !["bufhex"].cells =
                Hexify(@, heap["buf"].cells, buflen)]
  /\ pc' = "hexified"
  /\ UNCHANGED <<wide, c, getopt_c, buflen, saltlen, optind, given, in_stream,
                 out_stream, term, term_pre, s, tty_changed, restores, f,
                 rd, freads, gcry_err, kdf_calls, entry1, entries_differ,
                 reads, stdout_s, stderr_s, tty_s, exit_status, ub>>

NextHex == HexifyAlone

SpecHex == InitHex /\ [][NextHex]_vars

\* ------------------------------------------- lengths at full width
\* buflen and saltlen are unsigned int, 32 bits wide; hexify counts in
\* grub_size_t and writes one byte after the other.  A length is kept in
\* 16-bit halves, with the part above 32 bits in top, so that every sum is
\* exact: [top, hi, lo] stands for (top * Half + hi) * Half + lo.
Half == 65536

Wide(top, hi, lo) == [top |-> top, hi |-> hi, lo |-> lo]

WideZero == Wide(0, 0, 0)

\* 2 * n + k, exactly
TwicePlus(n, k) ==
  LET lo2 == 2 * n.lo + k
      hi2 == 2 * n.hi + lo2 \div Half
  IN Wide(2 * n.top + hi2 \div Half, hi2 % Half, lo2 % Half)

\* The value of an expression of type unsigned int: its low 32 bits.
ToUInt(w) == Wide(0, w.hi, w.lo)

WideLeq(a, b) ==
  \/ a.top < b.top
  \/ a.top = b.top /\ a.hi < b.hi
  \/ a.top = b.top /\ a.hi = b.hi /\ a.lo <= b.lo

WideMax(a, b) == IF WideLeq(a, b) THEN b ELSE a

\* buflen * 2 + 1 and saltlen * 2 + 1, the arguments of malloc; lines 162, 178
HexAllocSize(n) == ToUInt(TwicePlus(n, 1))

\* The bytes hexify (hex, bin, n) writes: two for each of the n bytes and
\* the terminator; lines 89-108
HexifyWrites(n) == TwicePlus(n, 1)

\* 2 * buflen and 2 * saltlen, the lengths of the memsets; lines 313-317,
\* 328-332
HexWipeLen(n) == ToUInt(TwicePlus(n, 0))

\* The lengths strtoul can leave in an unsigned int: small ones, the ones
\* around 2^31 and the largest.
UIntSamples ==
  {Wide(0, h, l) : h \in {0, 32767, 32768, 65535}, l \in {0, 1, 64, 65535}}

HexBufNames == {"bufhex", "salthex"}

InitWide ==
  /\ pc = "wide_malloc"
  /\ buflen = DefaultBuflen
  /\ heap = [b \in BufNames |-> NoBuf]
  /\ \E n \in UIntSamples, m \in UIntSamples :
       wide = [buflen |-> n, saltlen |-> m,
               size |-> [b \in HexBufNames |-> WideZero],
               extent |-> [b \in HexBufNames |-> WideZero]]
  /\ Boot

\* The four allocations, lines 162-186: all succeed, or one of them fails.
WideMalloc ==
  /\ pc = "wide_malloc"
  /\ \/ /\ wide' = [wide EXCEPT !.size["bufhex"] = HexAllocSize(wide.buflen),
                                !.size["salthex"] = HexAllocSize(wide.saltlen)]
        /\ pc' = "wide_hexify"
        /\ UNCHANGED <<stderr_s, exit_status>>
     \/ /\ GrubUtilError("Out of memory")
        /\ UNCHANGED wide
  /\ UNCHANGED <<c, getopt_c, buflen, saltlen, optind, given, heap, in_stream,
                 out_stream, term, term_pre, s, tty_changed, restores, f,
                 rd, freads, gcry_err, kdf_calls, entry1, entries_differ,
                 reads, stdout_s, tty_s, ub>>

\* hexify (bufhex, buf, buflen); hexify (salthex, salt, saltlen); lines 323-324
WideHexify ==
  /\ pc = "wide_hexify"
  /\ wide' = [wide EXCEPT
                !.extent["bufhex"] = WideMax(@, HexifyWrites(wide.buflen)),
                !.extent["salthex"] = WideMax(@, HexifyWrites(wide.saltlen))]
  /\ pc' = "wide_wipe"
  /\ UNCHANGED <<c, getopt_c, buflen, saltlen, optind, given, heap, in_stream,
                 out_stream, term, term_pre, s, tty_changed, restores, f,
                 rd, freads, gcry_err, kdf_calls, entry1, entries_differ,
                 reads, stdout_s, stderr_s, tty_s, exit_status, ub>>

\* memset (bufhex, 0, 2 * buflen); memset (salthex, 0, 2 * saltlen); after
\* hexify (lines 328-332) or, when the derivation failed, in its place
\* (lines 313-317)
WideWipe ==
  /\ pc \in {"wide_hexify", "wide_wipe"}
  /\ wide' = [wide EXCEPT
                !.extent["bufhex"] = WideMax(@, HexWipeLen(wide.buflen)),
                !.extent["salthex"] = WideMax(@, HexWipeLen(wide.saltlen))]
  /\ pc' = "wide_done"
  /\ UNCHANGED <<c, getopt_c, buflen, saltlen, optind, given, heap, in_stream,
                 out_stream, term, term_pre, s, tty_changed, restores, f,
                 rd, freads, gcry_err, kdf_calls, entry1, entries_differ,
                 reads, stdout_s, stderr_s, tty_s, exit_status, ub>>

NextWide == WideMalloc \/ WideHexify \/ WideWipe

SpecWide == InitWide /\ [][NextWide]_vars

\* ------------------------------------------------------------- claims
Exited == pc = "exit"

CredentialPrinted == \E i \in 1..Len(stdout_s) : IsCredential(stdout_s[i])

\* The run went through the derivation and returned 0 from main.
Succeeded == Exited /\ exit_status = "0" /\ kdf_calls # <<>>

EntropyMsg == Text("Couldn't retrieve random data for salt")

\* C1: on every path that ends the process, each of pass1, pass2, salt,
\* salthex, buf and bufhex that was allocated holds no password, salt or
\* key byte when its storage is released, nor when the process exits.
C1_AllBuffersZeroedBeforeRelease ==
  \A b \in BufNames :
    /\ ~heap[b].dirty
    /\ Exited => ~HoldsMaterial(heap[b].cells)

\* C2: once the first entry was captured, its buffer holds no byte of it
\* when it is released, on every later path.
C2_Pass1WipedBeforeRelease ==
  heap["pass1"].st = "freed" => ~heap["pass1"].dirty

\* C3: at process exit, after any run, the terminal's echo attribute is
\* what it was before the run.
C3_EchoRestoredAtExit ==
  Exited => (("ECHO" \in term) <=> ("ECHO" \in term_pre))

\* C3 witness: echo was on, was switched off for the prompts, and the
\* process has exited on a failure.
C3_Witness ==
  /\ Exited /\ exit_status = "1"
  /\ tty_changed /\ "ECHO" \in term_pre /\ restores >= 1

\* C4: if the two entries differ by even one byte (zero bytes included),
\* the process fails with "Passwords don't match" and prints no credential.
C4_DifferingEntriesFail ==
  (entries_differ /\ pc # "compare") =>
    /\ Exited /\ exit_status = "1"
    /\ stderr_s = <<Text("Passwords don't match")>>
    /\ ~CredentialPrinted

\* C5: if the read of the random device returns fewer than saltlen bytes,
\* the process fails with "Couldn't retrieve random data for salt", the
\* derivation is never invoked and the read is not retried.
C5_ShortReadFailsWithEntropyError ==
  (freads >= 1 /\ rd # saltlen) =>
    /\ Exited /\ exit_status = "1"
    /\ stderr_s = <<EntropyMsg>>
    /\ kdf_calls = <<>>
    /\ freads = 1

\* C6: a run that fails has written exactly one diagnostic line to the
\* error stream, exits non-zero and has printed no credential; a credential
\* is printed only by the run that exits with status zero.
C6_FailureOneDiagnosticNoCredential ==
  /\ (Exited /\ exit_status # "0") => (Len(stderr_s) = 1 /\ ~CredentialPrinted)
  /\ (Exited /\ CredentialPrinted) => exit_status = "0"

\* C7: on a successful run standard output received the credential line
\* and nothing else.
C7_StdoutOnlyCredential ==
  Succeeded => (Len(stdout_s) = 1 /\ IsCredential(stdout_s[1]))

\* The number a flag gave, or the default when the flag was absent.
Chosen(arg, default) == IF arg = <<>> THEN default ELSE Strtoul(arg)

\* C8: the derivation is called with, and the credential shows, the
\* iteration count given with -c, the key length given with -l and the salt
\* length given with -s, or 10000, 64 and 64 when the flag is absent.
C8_OptionsUsed ==
  /\ \A i \in 1..Len(kdf_calls) :
       /\ kdf_calls[i].c = Chosen(given.c, DefaultC)
       /\ kdf_calls[i].buflen = Chosen(given.l, DefaultBuflen)
       /\ kdf_calls[i].saltlen = Chosen(given.s, DefaultSaltlen)
  /\ \A i \in 1..Len(stdout_s) :
       IsCredential(stdout_s[i]) => stdout_s[i].iter = Chosen(given.c, DefaultC)

\* The value of a hexadecimal digit character, 16 for any other character.
NibbleOf(ch) ==
  IF ch \in 48..57 THEN ch - 48 ELSE IF ch \in 65..70 THEN ch - 55 ELSE 16

\* The bytes a string of hexadecimal digit pairs stands for.
Unhex(str) ==
  [j \in 1..(Len(str) \div 2) |-> 16 * NibbleOf(str[2 * j - 1]) + NibbleOf(str[2 * j])]

\* C9: for a byte sequence of length L, hexify writes exactly 2L characters
\* and then a terminator, every character is one of 0-9A-F, each byte gives
\* its high nibble first and its low nibble second, and decoding the
\* string gives the byte sequence back.
C9_HexifyRoundTrip ==
  pc = "hexified" =>
    LET bin == heap["buf"].cells
        hex == heap["bufhex"].cells
        L == Len(bin)
    IN /\ Len(hex) = 2 * L + 1
       /\ hex[2 * L + 1] = 0
       /\ \A i \in 1..(2 * L) : hex[i] \in (48..57) \cup (65..70)
       /\ \A j \in 1..L : /\ NibbleOf(hex[2 * j - 1]) = bin[j] \div 16
                          /\ NibbleOf(hex[2 * j]) = bin[j] % 16
       /\ Len(CStr(hex)) = 2 * L
       /\ Unhex(CStr(hex)) = bin

\* C9 witness: the bytes AB 09 were encoded, as "AB09".
C9_Witness ==
  /\ pc = "hexified"
  /\ heap["buf"].cells = <<171, 9>>
  /\ heap["bufhex"].cells = <<65, 66, 48, 57, 0>>

IsPrompt(w) == w.text \in {"Enter password: ", "\nReenter password: "}

PromptsIn(stream) == \E i \in 1..Len(stream) : IsPrompt(stream[i])

\* C10: when /dev/tty could be opened the entries are read from it and the
\* prompts are written to it; when it could not, the entries are read from
\* standard input and the prompts are written to standard error.
C10_PromptsAndReadsFollowTty ==
  reads # <<>> =>
    /\ \A i \in 1..Len(reads) : reads[i] = in_stream
    /\ ~PromptsIn(stdout_s)
    /\ out_stream = "tty" => PromptsIn(tty_s)
    /\ out_stream = "stderr" => PromptsIn(stderr_s)

\* ------------------------------------------------------------- C11
\* The state of the pipeline a control point belongs to.  A run that ends
\* in the option loop with status 0 printed the usage or the version.
PhaseOf(p, status, calls) ==
  CASE p = "getopt" -> "Init"
    [] p \in {"malloc_bufhex", "malloc_buf", "malloc_salt", "malloc_salthex",
              "open_tty", "tcgetattr", "read_pass1", "read_pass2",
              "compare"} -> "ParamsResolved"
    [] p \in {"open_random", "read_salt"} -> "Prompted"
    [] p = "derive" -> "SaltGenerated"
    [] p = "check_err" -> "Derived"
    [] p = "cleanup" -> "Encoded"
    [] p = "exit" /\ status = "0" /\ calls # <<>> -> "Done"
    [] p = "exit" /\ status = "0" /\ calls = <<>> -> "Usage"
    [] OTHER -> "Failed"

Phase == PhaseOf(pc, exit_status, kdf_calls)

PhaseOrder ==
  <<"Init", "ParamsResolved", "Prompted", "SaltGenerated", "Derived",
    "Encoded", "Done">>

PhaseFollows(a, b) ==
  \E i \in 1..(Len(PhaseOrder) - 1) : PhaseOrder[i] = a /\ PhaseOrder[i + 1] = b

\* What has happened by the time the derivation is invoked and by the
\* time the credential is printed.
OrderInv ==
  /\ kdf_calls # <<>> =>
       /\ Len(kdf_calls) = 1
       /\ Len(reads) = 2
       /\ heap["pass2"].st = "freed"
       /\ freads = 1 /\ f = "closed" /\ rd = saltlen
  /\ CredentialPrinted => kdf_calls # <<>> /\ gcry_err = 0
  /\ Phase \in {"Derived", "Encoded", "Done"} => kdf_calls # <<>>
  /\ Phase \in {"Encoded", "Done"} => CredentialPrinted

\* One step of a run: the phase stays, or moves to the next one of the
\* order, or to Failed; nothing follows Done, Usage or Failed.
OrderStep ==
  /\ \/ Phase' = Phase
     \/ PhaseFollows(Phase, Phase')
     \/ Phase' = "Failed"
     \/ Phase = "Init" /\ Phase' = "Usage"
  /\ Phase \in {"Done", "Usage", "Failed"} => UNCHANGED vars
  /\ Len(reads') > Len(reads) => Phase = "ParamsResolved"
  /\ freads' > freads => Phase = "Prompted"
  /\ kdf_calls' # kdf_calls => Phase = "SaltGenerated"
  /\ stdout_s' # stdout_s /\ CredentialPrinted' => Phase = "Derived"
  /\ OrderInv'

\* C11: a run passes through Init, ParamsResolved, Prompted, SaltGenerated,
\* Derived, Encoded and Done in this order without skipping or reordering
\* a step: the derivation is invoked only after both entries were read and
\* compared equal and the whole salt was read, the credential is printed
\* only after the derivation returned success, and a failure can follow
\* any state that is not final and is followed by nothing.
C11_StateOrder == [][OrderStep]_vars

\* C11 witness: a run that reached Done with the credential printed.
C11_Witness ==
  /\ Phase = "Done" /\ CredentialPrinted
  /\ Len(reads) = 2 /\ freads = 1 /\ Len(kdf_calls) = 1

\* ------------------------------------------------------------- C12
\* C12: if the random device cannot be opened, the process writes
\* "Couldn't retrieve random data for salt" and exits non-zero, with the
\* password buffer wiped and released, and without any other operation on
\* the handle that was never opened.
C12_OpenFailureLeavesHandleAlone ==
  f = "null" =>
    /\ Exited /\ exit_status = "1"
    /\ stderr_s = <<EntropyMsg>>
    /\ heap["pass1"].st = "freed" /\ ~heap["pass1"].dirty
    /\ ub = <<>>

\* ------------------------------------------------------------- C13
\* The option loop has ended and the run went on to the allocations.
ParamsResolved == pc # "getopt" /\ getopt_c = -1

\* C13: from the end of the option loop onward the iteration count, the
\* output length and the salt length are all positive: no zero given with
\* -c, -l or -s is used for an allocation, the salt read or the derivation.
C13_ParametersPositive ==
  ParamsResolved => (c > 0 /\ buflen > 0 /\ saltlen > 0)

\* ------------------------------------------------------------- C14
\* C14: the password passed to the derivation is not empty (an entry of
\* only a newline, entered twice, does not reach the derivation).
C14_PasswordNonEmpty ==
  \A i \in 1..Len(kdf_calls) : kdf_calls[i].pass # <<>>

\* ------------------------------------------------------------- C15
\* C15: a run in which the terminal attributes were saved and changed
\* restores the saved attributes exactly once before the process exits,
\* whichever branch exits; a run in which the change did not succeed
\* performs no restore.
C15_RestoredExactlyOnce ==
  /\ restores <= 1
  /\ ~tty_changed => restores = 0
  /\ (Exited /\ tty_changed) => (restores = 1 /\ term = s)

\* C15 witness: the first read failed after echo was switched off, and the
\* process exited with the one restore of that branch.
C15_Witness ==
  /\ Exited /\ tty_changed /\ Len(reads) = 1
  /\ restores = 1 /\ "ECHO" \in term

\* ------------------------------------------------------------- C16
\* C16 as stated: the terminal attributes are restored after the first
\* password read and again after the second, even when the second fails.
C16_RestoredAfterEachRead ==
  tty_changed => restores = Len(reads)

\* C16, amended: the terminal attributes are restored after the second
\* password read, even when that read fails, and after the first read only
\* when the first read fails; after a first read that succeeded they stay
\* changed until the second read is over.
C16_RestoredAfterSecondRead ==
  tty_changed =>
    /\ pc = "read_pass2" => (restores = 0 /\ term = NoEcho(s))
    /\ Len(reads) = 2 => (restores = 1 /\ term = s)
    /\ (Len(reads) = 1 /\ Exited) => (restores = 1 /\ term = s)

\* C16 witness: the second read failed and the terminal was restored.
C16_Witness ==
  /\ tty_changed /\ Len(reads) = 2 /\ Exited /\ heap["pass2"].st # "freed"
  /\ stderr_s = <<Text("Failure to read password")>>
  /\ restores = 1 /\ "ECHO" \in term

\* ------------------------------------------------------------- C17
\* C17: whenever tty_changed is true, echo is off at both reads: where the
\* first read succeeds there is no restore between the start of the first
\* read and the end of the second.
C17_EchoOffForBothReads ==
  (tty_changed /\ pc \in {"read_pass1", "read_pass2"}) =>
    /\ "ECHO" \notin term /\ "ISIG" \notin term
    /\ restores = 0

\* C17 witness: the first entry was read with echo switched off and the
\* second read is about to start.
C17_Witness ==
  /\ pc = "read_pass2" /\ tty_changed /\ "ECHO" \in s
  /\ Len(reads) = 1 /\ heap["pass1"].st = "live"

\* ------------------------------------------------------------- C19
\* C19: each resource is released at most once and only after it was
\* acquired: the random device handle is closed exactly once if it was
\* opened and never if opening failed, and no heap buffer is freed twice or
\* freed without having been allocated.
C19_ReleasedOnce ==
  /\ ub = <<>>
  /\ Exited => f # "open"
  /\ \A b \in BufNames : heap[b].frees <= 1

\* ------------------------------------------------------------- C18
\* C18: for every 32-bit unsigned buflen and saltlen, the hex buffers
\* allocated with buflen * 2 + 1 and saltlen * 2 + 1 bytes, computed in
\* 32-bit unsigned arithmetic, are at least as large as the 2n+1 bytes
\* hexify writes into them and the 2n bytes the final wipe clears: nothing
\* is written past the end of an allocation.
C18_HexBuffersLargeEnough ==
  pc \in {"wide_hexify", "wide_wipe", "wide_done"} =>
    \A b \in HexBufNames : WideLeq(wide.extent[b], wide.size[b])

====
